---------------------------- MODULE Spec2Model ----------------------------
(***************************************************************************)
(* Model of tensorflow_transform/beam/info_theory.py.                      *)
(*                                                                         *)
(* Real numbers are modelled exactly.  A logarithm of a positive integer   *)
(* m is the vector of the exponents of the primes in m (ln m = sum of      *)
(* e_p * ln p, log2 m = sum of e_p * log2 p; the logarithms of the primes  *)
(* are linearly independent over the rationals, so two such values are     *)
(* equal exactly when their vectors are).  A value carries a class tag for *)
(* the IEEE results -inf, +inf and nan that numpy returns for log(0) and   *)
(* log of a negative number.  Probabilities are rationals <<num, den>> in  *)
(* lowest terms.  Rounding of doubles is not modelled.                     *)
(***************************************************************************)
EXTENDS Integers, Sequences, FiniteSets, TLC

\* Largest total count n that a call is given.
MaxN == 5

\* Largest total count n given to calls that run interleaved.
MaxPairN == 2

----------------------------------------------------------------------------
\* Exact arithmetic

Abs(a) == IF a < 0 THEN 0 - a ELSE a

RECURSIVE GCD(_, _)
GCD(a, b) == IF b = 0 THEN a ELSE GCD(b, a % b)

\* A rational <<num, den>> in lowest terms, den > 0.
Rat(num, den) ==
    LET s == IF den < 0 THEN 0 - 1 ELSE 1
        g == GCD(Abs(num), Abs(den))
    IN  <<(s * num) \div g, (s * den) \div g>>

RatAdd(a, b) ==
    IF a[2] = 1 /\ b[2] = 1 THEN <<a[1] + b[1], 1>>
    ELSE Rat(a[1] * b[2] + b[1] * a[2], a[2] * b[2])
RatMul(a, b) ==
    IF a[2] = 1 /\ b[2] = 1 THEN <<a[1] * b[1], 1>>
    ELSE Rat(a[1] * b[1], a[2] * b[2])
RatDiv(a, b) == Rat(a[1] * b[2], a[2] * b[1])
RatNeg(a) == <<0 - a[1], a[2]>>
RatZero == <<0, 1>>
RatOne == <<1, 1>>

RECURSIVE IntPow(_, _)
IntPow(b, e) == IF e = 0 THEN 1 ELSE b * IntPow(b, e - 1)

Primes == {p \in 2..(MaxN + 1) : \A d \in 2..(p - 1) : p % d # 0}

\* The exponent of the prime p in the positive integer m.
RECURSIVE Val(_, _)
Val(p, m) == IF m % p = 0 THEN 1 + Val(p, m \div p) ELSE 0

ZeroVec == [p \in Primes |-> RatZero]
Fin(v) == [cls |-> "fin", v |-> v]
NInf == [cls |-> "ninf", v |-> ZeroVec]
PInf == [cls |-> "pinf", v |-> ZeroVec]
NaN == [cls |-> "nan", v |-> ZeroVec]
Zero == Fin(ZeroVec)

\* IEEE addition of two values.
XAdd(a, b) ==
    IF a.cls = "nan" \/ b.cls = "nan" THEN NaN
    ELSE IF a.cls = "fin" /\ b.cls = "fin"
         THEN Fin([p \in Primes |-> RatAdd(a.v[p], b.v[p])])
    ELSE IF a.cls = "fin" THEN b
    ELSE IF b.cls = "fin" THEN a
    ELSE IF a.cls = b.cls THEN a
    ELSE NaN

XNeg(a) ==
    IF a.cls = "fin" THEN Fin([p \in Primes |-> RatNeg(a.v[p])])
    ELSE IF a.cls = "ninf" THEN PInf
    ELSE IF a.cls = "pinf" THEN NInf
    ELSE NaN

XSub(a, b) == XAdd(a, XNeg(b))

\* IEEE product of the finite rational r and the value a.
XScale(r, a) ==
    IF a.cls = "nan" THEN NaN
    ELSE IF a.cls = "fin" THEN Fin([p \in Primes |-> RatMul(r, a.v[p])])
    ELSE IF r[1] = 0 THEN NaN
    ELSE IF r[1] > 0 THEN a
    ELSE XNeg(a)

\* IEEE quotient of the value a by the rational r (numpy float64: a zero
\* divisor gives nan or an infinity, not an exception).
XDiv(a, r) ==
    IF r[1] # 0 THEN XScale(RatDiv(RatOne, r), a)
    ELSE IF a.cls = "fin" /\ a.v = ZeroVec THEN NaN
    ELSE IF a.cls = "nan" THEN NaN
    ELSE PInf

\* The logarithm of the integer m in the basis of the logarithms of the primes.
PrimeLog(m) ==
    IF m > 0 THEN Fin([p \in Primes |-> <<Val(p, m), 1>>])
    ELSE IF m = 0 THEN NInf
    ELSE NaN

np_log(m) == PrimeLog(m)

np_log2(m) == PrimeLog(m)

\* exp of a natural-logarithm value whose exponents are integers: the
\* rational prod p^e.  exp(-inf) = 0; exp(+inf) and exp(nan) are not finite
\* and are written <<1, 0>> and <<0, 0>>.
RECURSIVE ExpProd(_, _)
ExpProd(v, ps) ==
    IF ps = {} THEN RatOne
    ELSE LET p == CHOOSE q \in ps : TRUE
             e == v[p][1]
             f == IF e >= 0 THEN <<IntPow(p, e), 1>> ELSE <<1, IntPow(p, 0 - e)>>
         IN  RatMul(f, ExpProd(v, ps \ {p}))

np_exp(a) ==
    IF a.cls = "fin" THEN ExpProd(a.v, Primes)
    ELSE IF a.cls = "ninf" THEN RatZero
    ELSE IF a.cls = "pinf" THEN <<1, 0>>
    ELSE <<0, 0>>

\* Variant: only arguments below the pole at 0 raise.
LgammaRaisesBelowPole(m) == m + 1 < 0

\* math.lgamma(m + 1) raises ValueError at the poles of gamma.
LgammaRaises(m) == m + 1 <= 0

\* ln(m!) for m >= 0.
RECURSIVE _logfactorial(_)
_logfactorial(m) ==
    IF m <= 0 THEN Zero ELSE XAdd(_logfactorial(m - 1), np_log(m))

----------------------------------------------------------------------------
\* The computations of the source, as operators

Max(a, b) == IF a >= b THEN a ELSE b
Min(a, b) == IF a <= b THEN a ELSE b

Start(n, x_i, y_j) == Max(0, n - (n - x_i) - (n - y_j))

\* Variant: the end of the range is x_i, without the minimum.
EndWithoutMin(n, x_i, y_j) == x_i

End(n, x_i, y_j) == Min(x_i, y_j)

\* The arguments of the nine log-factorials, in evaluation order.
LogfactorialArgs(n, x_i, y_j) ==
    LET start == Start(n, x_i, y_j)
    IN  <<x_i, y_j, n - x_i, n - y_j,
          n, start, x_i - start, y_j - start, n - x_i - y_j + start>>

Numerator(n, x_i, y_j) ==
    XAdd(XAdd(XAdd(_logfactorial(x_i), _logfactorial(y_j)),
              _logfactorial(n - x_i)),
         _logfactorial(n - y_j))

Denominator(n, x_i, y_j, start) ==
    XAdd(XAdd(XAdd(XAdd(_logfactorial(n), _logfactorial(start)),
                   _logfactorial(x_i - start)),
              _logfactorial(y_j - start)),
         _logfactorial(n - x_i - y_j + start))

\* One of the nine log-factorials raises.
PmfRaises(n, x_i, y_j) ==
    \E k \in 1..9 : LgammaRaises(LogfactorialArgs(n, x_i, y_j)[k])

\* Variant: range(start, end).
RangeStopsEarly(it, end) == it < end

\* range(start, end + 1) has a next element.
RangeHasNext(it, end) == it <= end

\* Variant: the last argument without its + 1.
UpdateArgsOffByOne(n, x_i, y_j, n_j) ==
    <<n_j + 1, x_i - n_j, y_j - n_j, n - x_i - y_j + n_j>>

\* The arguments of the four np.log calls of the denominator update.
UpdateArgs(n, x_i, y_j, n_j) ==
    <<n_j + 1, x_i - n_j, y_j - n_j, n - x_i - y_j + n_j + 1>>

DenominatorUpdate(denominator, n, x_i, y_j, n_j) ==
    LET a == UpdateArgs(n, x_i, y_j, n_j)
    IN  XAdd(denominator,
             XAdd(XSub(XSub(np_log(a[1]), np_log(a[2])), np_log(a[3])),
                  np_log(a[4])))

\* Variant: the term of y_j is left out.
CoefficientWithoutY(n, x_i, y_j) ==
    XAdd(XNeg(np_log2(x_i)), np_log2(n))

Coefficient(n, x_i, y_j) ==
    XAdd(XSub(XNeg(np_log2(x_i)), np_log2(y_j)), np_log2(n))

\* The term added to partial_result for the pair (n_j, p_j).
Term(n_j, coefficient, p_j) ==
    XScale(p_j, XScale(<<n_j, 1>>, XAdd(coefficient, np_log2(n_j))))

\* The branch `if n_j != 0` of the EMI loop.
AddsTerm(n_j) == n_j # 0

\* Variant: the probability is added inside the `if n_j != 0` branch.
AddedProbabilityInsideIf(n_j, p_j) == IF n_j # 0 THEN p_j ELSE RatZero

\* The probability added to sum_probability for the pair (n_j, p_j).
AddedProbability(n_j, p_j) == p_j

\* Variant: the test is n_ij < 0.
ShortCircuitNegative(n_ij) == n_ij < 0

\* The branch `if n_ij == 0` of calculate_partial_mutual_information.
ShortCircuit(n_ij) == n_ij = 0

PartialMI(n_ij, x_i, y_j, n) ==
    XScale(<<n_ij, 1>>,
           XSub(XAdd(np_log2(n_ij), np_log2(n)),
                XAdd(np_log2(x_i), np_log2(y_j))))

----------------------------------------------------------------------------
\* The functions run alone, from the first line to the last

\* The pairs that the loop of lines 111-116 yields from the range position it.
RECURSIVE PmfLoop(_, _, _, _, _, _, _)
PmfLoop(n, x_i, y_j, it, end, numerator, denominator) ==
    IF RangeHasNext(it, end)
    THEN <<<<it, np_exp(XSub(numerator, denominator))>>>> \o
         PmfLoop(n, x_i, y_j, it + 1, end, numerator,
                 DenominatorUpdate(denominator, n, x_i, y_j, it))
    ELSE <<>>

\* The sequence of the pairs of a fully consumed generator (empty when the
\* generator raises before its loop).
_hypergeometric_pmf(n, x_i, y_j) ==
    IF PmfRaises(n, x_i, y_j) THEN <<>>
    ELSE PmfLoop(n, x_i, y_j, Start(n, x_i, y_j), End(n, x_i, y_j),
                 Numerator(n, x_i, y_j),
                 Denominator(n, x_i, y_j, Start(n, x_i, y_j)))

\* The loop of lines 56-59 over the pairs pmf[m..], from the accumulators
\* <<partial_result, sum_probability>>.
RECURSIVE EMILoop(_, _, _, _)
EMILoop(pmf, m, coefficient, acc) ==
    IF m > Len(pmf) THEN acc
    ELSE EMILoop(pmf, m + 1, coefficient,
                 <<IF AddsTerm(pmf[m][1])
                   THEN XAdd(acc[1], Term(pmf[m][1], coefficient, pmf[m][2]))
                   ELSE acc[1],
                   RatAdd(acc[2], AddedProbability(pmf[m][1], pmf[m][2]))>>)

\* The value returned for inputs on which the generator does not raise.
calculate_partial_expected_mutual_information(n, x_i, y_j) ==
    LET acc == EMILoop(_hypergeometric_pmf(n, x_i, y_j), 1,
                       Coefficient(n, x_i, y_j), <<Zero, RatZero>>)
    IN  XDiv(acc[1], acc[2])

----------------------------------------------------------------------------
\* State

Inst == {1, 2}

\* call[i]: the locals of the i-th call in progress (a generator and, for
\* op = "emi", the EMI call that consumes it), with the sequence of the
\* pairs yielded so far (out) and of the arguments given to np.log by the
\* denominator update (logargs) and to np.log2 by the EMI loop (log2args).
\* mi: the locals of a call of calculate_partial_mutual_information.
VARIABLES call, mi

vars == <<call, mi>>

Idle ==
    [op |-> "none", n |-> 0, x_i |-> 0, y_j |-> 0, pc |-> "idle",
     start |-> 0, end |-> 0, it |-> 0, n_j |-> 0, p_j |-> RatZero,
     numerator |-> Zero, denominator |-> Zero,
     coefficient |-> Zero, sum_probability |-> RatZero,
     partial_result |-> Zero, ret |-> Zero,
     out |-> <<>>, logargs |-> <<>>, log2args |-> <<>>]

MIIdle ==
    [pc |-> "idle", n_ij |-> 0, x_i |-> 0, y_j |-> 0, n |-> 0,
     ret |-> Zero, nlog |-> 0]

Init == /\ call = [i \in Inst |-> Idle]
        /\ mi = MIIdle

\* Variant: `denominator` is one module-level variable, that of call 1.
SharedDenominator(c, i) == c[1].denominator

\* `denominator` is a local of the generator's frame: call i reads its own.
LocalDenominator(c, i) == c[i].denominator

\* A caller invokes _hypergeometric_pmf (op = "pmf") or
\* calculate_partial_expected_mutual_information (op = "emi", line 53-55).
Call(i, op, n, x_i, y_j) ==
    /\ call[i].pc = "idle"
    /\ call' = [call EXCEPT ![i] =
                 [Idle EXCEPT !.op = op, !.n = n, !.x_i = x_i, !.y_j = y_j,
                              !.coefficient = IF op = "emi"
                                              THEN Coefficient(n, x_i, y_j)
                                              ELSE Zero,
                              !.pc = "created"]]
    /\ UNCHANGED mi

\* First next(): lines 100-110.  A log-factorial of a negative integer
\* raises ValueError, which ends the generator and the call that consumes it.
GenBegin(i) ==
    LET f == call[i]
        start == Start(f.n, f.x_i, f.y_j)
        end == End(f.n, f.x_i, f.y_j)
    IN  /\ f.pc = "created"
        /\ IF PmfRaises(f.n, f.x_i, f.y_j)
           THEN call' = [call EXCEPT ![i] = [f EXCEPT !.start = start,
                                                      !.end = end,
                                                      !.pc = "raised"]]
           ELSE call' = [call EXCEPT ![i] =
                          [f EXCEPT !.start = start, !.end = end,
                                    !.it = start,
                                    !.numerator = Numerator(f.n, f.x_i, f.y_j),
                                    !.denominator =
                                        Denominator(f.n, f.x_i, f.y_j, start),
                                    !.pc = "loop"]]
        /\ UNCHANGED mi

\* Lines 111-112: the range gives n_j and p_j is computed.
GenProb(i) ==
    LET f == call[i]
    IN  /\ f.pc = "loop"
        /\ RangeHasNext(f.it, f.end)
        /\ call' = [call EXCEPT ![i] =
                     [f EXCEPT !.n_j = f.it, !.it = f.it + 1,
                               !.p_j = np_exp(XSub(f.numerator,
                                                   LocalDenominator(call, i))),
                               !.pc = "prob"]]
        /\ UNCHANGED mi

\* Lines 113-116: the denominator is advanced, then the pair is yielded.
GenUpdate(i) ==
    LET f == call[i]
    IN  /\ f.pc = "prob"
        /\ call' = [call EXCEPT ![i] =
                     [f EXCEPT !.denominator =
                                   DenominatorUpdate(LocalDenominator(call, i),
                                                     f.n, f.x_i, f.y_j, f.n_j),
                               !.logargs = Append(f.logargs,
                                   UpdateArgs(f.n, f.x_i, f.y_j, f.n_j)),
                               !.out = Append(f.out, <<f.n_j, f.p_j>>),
                               !.pc = "yielded"]]
        /\ UNCHANGED mi

\* The consumer takes the pair: the EMI loop body (lines 57-59), or a
\* caller that only iterates.
Consume(i) ==
    LET f == call[i]
    IN  /\ f.pc = "yielded"
        /\ IF f.op = "emi"
           THEN call' = [call EXCEPT ![i] =
                          [f EXCEPT !.partial_result =
                                        IF AddsTerm(f.n_j)
                                        THEN XAdd(f.partial_result,
                                                  Term(f.n_j, f.coefficient,
                                                       f.p_j))
                                        ELSE f.partial_result,
                                    !.log2args =
                                        IF AddsTerm(f.n_j)
                                        THEN Append(f.log2args, f.n_j)
                                        ELSE f.log2args,
                                    !.sum_probability =
                                        RatAdd(f.sum_probability,
                                               AddedProbability(f.n_j, f.p_j)),
                                    !.pc = "loop"]]
           ELSE call' = [call EXCEPT ![i] = [f EXCEPT !.pc = "loop"]]
        /\ UNCHANGED mi

\* The range is exhausted: the generator returns.
GenExhaust(i) ==
    LET f == call[i]
    IN  /\ f.pc = "loop"
        /\ ~RangeHasNext(f.it, f.end)
        /\ call' = [call EXCEPT ![i] =
                     [f EXCEPT !.pc = IF f.op = "emi" THEN "exhausted"
                                      ELSE "done"]]
        /\ UNCHANGED mi

\* Line 63.
EMIReturn(i) ==
    LET f == call[i]
    IN  /\ f.pc = "exhausted"
        /\ call' = [call EXCEPT ![i] =
                     [f EXCEPT !.ret = XDiv(f.partial_result,
                                            f.sum_probability),
                               !.pc = "done"]]
        /\ UNCHANGED mi

\* The call is over; the next call gets fresh locals.
Reset(i) ==
    /\ call[i].pc \in {"done", "raised"}
    /\ call' = [call EXCEPT ![i] = Idle]
    /\ UNCHANGED mi

Ops == {"pmf", "emi"}
Marginals(n) == (0 - 2)..(n + 2)
PairMarginals(n) == (0 - 1)..n

\* One call at a time.
Next ==
    \/ \E op \in Ops, n \in 0..MaxN :
         \E x_i \in Marginals(n), y_j \in Marginals(n) : Call(1, op, n, x_i, y_j)
    \/ GenBegin(1)
    \/ GenProb(1)
    \/ GenUpdate(1)
    \/ Consume(1)
    \/ GenExhaust(1)
    \/ EMIReturn(1)
    \/ Reset(1)

Spec == Init /\ [][Next]_vars

\* Two calls, their steps interleaved in every order.
PairNext ==
    \/ \E i \in Inst, op \in Ops, n \in 0..MaxPairN :
         \E x_i \in PairMarginals(n), y_j \in PairMarginals(n) :
            Call(i, op, n, x_i, y_j)
    \/ \E i \in Inst : GenBegin(i)
    \/ \E i \in Inst : GenProb(i)
    \/ \E i \in Inst : GenUpdate(i)
    \/ \E i \in Inst : Consume(i)
    \/ \E i \in Inst : GenExhaust(i)
    \/ \E i \in Inst : EMIReturn(i)
    \/ \E i \in Inst : Reset(i)

SpecPair == Init /\ [][PairNext]_vars

----------------------------------------------------------------------------
\* calculate_partial_mutual_information

MICall(n_ij, x_i, y_j, n) ==
    /\ mi.pc = "idle"
    /\ mi' = [MIIdle EXCEPT !.n_ij = n_ij, !.x_i = x_i, !.y_j = y_j, !.n = n,
                            !.pc = "called"]
    /\ UNCHANGED call

\* Lines 83-84.
MITest ==
    /\ mi.pc = "called"
    /\ mi' = IF ShortCircuit(mi.n_ij)
             THEN [mi EXCEPT !.ret = Zero, !.pc = "done"]
             ELSE [mi EXCEPT !.pc = "expr"]
    /\ UNCHANGED call

\* Line 85: four np.log2 evaluations.
MIExpr ==
    /\ mi.pc = "expr"
    /\ mi' = [mi EXCEPT !.ret = PartialMI(mi.n_ij, mi.x_i, mi.y_j, mi.n),
                        !.nlog = mi.nlog + 4,
                        !.pc = "done"]
    /\ UNCHANGED call

MIReset ==
    /\ mi.pc = "done"
    /\ mi' = MIIdle
    /\ UNCHANGED call

Counts == (0 - 1)..(MaxN + 1)

MINext ==
    \/ \E n_ij \in Counts, x_i \in Counts, y_j \in Counts, n \in Counts :
         MICall(n_ij, x_i, y_j, n)
    \/ MITest
    \/ MIExpr
    \/ MIReset

SpecMI == Init /\ [][MINext]_vars

----------------------------------------------------------------------------
\* Reference quantities, computed without logarithms

RECURSIVE Factorial(_)
Factorial(m) == IF m <= 0 THEN 1 ELSE m * Factorial(m - 1)

RECURSIVE Binomial(_, _)
Binomial(m, k) ==
    IF k < 0 \/ k > m THEN 0
    ELSE IF k = 0 THEN 1
    ELSE Binomial(m - 1, k - 1) + Binomial(m - 1, k)

\* C(x_i, k) * C(n - x_i, y_j - k) / C(n, y_j)
Hypergeometric(n, x_i, y_j, k) ==
    Rat(Binomial(x_i, k) * Binomial(n - x_i, y_j - k), Binomial(n, y_j))

SupportStart(n, x_i, y_j) == Max(0, x_i + y_j - n)
SupportEnd(n, x_i, y_j) == Min(x_i, y_j)

InDomain(f) == 0 <= f.x_i /\ f.x_i <= f.n /\ 0 <= f.y_j /\ f.y_j <= f.n
Positive(f) == 0 < f.x_i /\ f.x_i <= f.n /\ 0 < f.y_j /\ f.y_j <= f.n

IsPrefix(s, t) == Len(s) <= Len(t) /\ \A m \in 1..Len(s) : s[m] = t[m]

\* The pairs that the consumer has taken.
Consumed(f) == IF f.pc = "yielded" THEN Len(f.out) - 1 ELSE Len(f.out)

----------------------------------------------------------------------------
\* C1: when calculate_partial_mutual_information is called with n_ij = 0 it
\* returns exactly 0, whatever x_i, y_j and n are, and no logarithm has been
\* evaluated when it returns.
C1_ZeroWithoutLogarithm ==
    (mi.pc = "done" /\ mi.n_ij = 0) => (mi.ret = Zero /\ mi.nlog = 0)

C1_Witness ==
    mi.pc = "done" /\ mi.n_ij = 0 /\ mi.x_i = 0 /\ mi.y_j < 0 /\ mi.n = 0

\* sum over the support of (n_ij / n) * log2(n * n_ij / (x_i * y_j)) * p(n_ij),
\* the n_ij = 0 term counted as 0.
RECURSIVE DocSum(_, _, _, _, _)
DocSum(n, x_i, y_j, k, end) ==
    IF k > end THEN Zero
    ELSE XAdd(IF k = 0 THEN Zero
              ELSE XScale(RatMul(Rat(k, n), Hypergeometric(n, x_i, y_j, k)),
                          XSub(XAdd(PrimeLog(n), PrimeLog(k)),
                               XAdd(PrimeLog(x_i), PrimeLog(y_j)))),
              DocSum(n, x_i, y_j, k + 1, end))

\* C2: for 0 < x_i <= n and 0 < y_j <= n the value that
\* calculate_partial_expected_mutual_information returns is the sum over the
\* support of (n_ij / n) * log2(n * n_ij / (x_i * y_j)) * p(n_ij).
C2_DocumentedSum ==
    \A i \in Inst :
        LET f == call[i]
        IN  (f.op = "emi" /\ f.pc = "done" /\ Positive(f)) =>
                f.ret = DocSum(f.n, f.x_i, f.y_j,
                               SupportStart(f.n, f.x_i, f.y_j),
                               SupportEnd(f.n, f.x_i, f.y_j))

\* ln(n!) + ln(k!) + ln((x_i - k)!) + ln((y_j - k)!) + ln((n - x_i - y_j + k)!)
DirectDenominator(n, x_i, y_j, k) ==
    PrimeLog(Factorial(n) * Factorial(k) * Factorial(x_i - k) *
             Factorial(y_j - k) * Factorial(n - x_i - y_j + k))

\* C3: for 0 <= x_i <= n and 0 <= y_j <= n, when p_j is computed for
\* n_j = k the denominator has had k - start updates and equals the direct
\* sum of the five log-factorials at k, and every p_j computed or yielded is
\* the hypergeometric probability C(x_i, k) C(n - x_i, y_j - k) / C(n, y_j).
C3_HypergeometricProbability ==
    \A i \in Inst :
        LET f == call[i]
        IN  InDomain(f) =>
              /\ f.pc = "prob" =>
                    /\ Len(f.logargs) = f.n_j - SupportStart(f.n, f.x_i, f.y_j)
                    /\ f.denominator =
                           DirectDenominator(f.n, f.x_i, f.y_j, f.n_j)
                    /\ f.p_j = Hypergeometric(f.n, f.x_i, f.y_j, f.n_j)
              /\ \A m \in 1..Len(f.out) :
                    f.out[m][2] =
                        Hypergeometric(f.n, f.x_i, f.y_j, f.out[m][1])

C3_Witness ==
    \E i \in Inst :
        /\ call[i].pc = "prob"
        /\ InDomain(call[i])
        /\ Len(call[i].logargs) >= 2
        /\ call[i].p_j # RatOne
        /\ call[i].p_j # RatZero

\* The pairs yielded so far are the first ones of start, start + 1, ..., end.
CountsUp(f) ==
    LET start == SupportStart(f.n, f.x_i, f.y_j)
        end == SupportEnd(f.n, f.x_i, f.y_j)
    IN  /\ f.pc # "raised"
        /\ Len(f.out) <= end - start + 1
        /\ \A m \in 1..Len(f.out) : f.out[m][1] = start + m - 1
        /\ f.pc \in {"exhausted", "done"} => Len(f.out) = end - start + 1

\* The steps that a consumed generator and its consumer still have to take.
StepsLeft(f) ==
    LET start == SupportStart(f.n, f.x_i, f.y_j)
        end == SupportEnd(f.n, f.x_i, f.y_j)
    IN  IF f.pc = "created" THEN 3 * (end - start + 1) + 3
        ELSE IF f.pc = "loop" THEN 3 * (end + 1 - f.it) + 2
        ELSE IF f.pc = "prob" THEN 3 * (end + 1 - f.it) + 4
        ELSE IF f.pc = "yielded" THEN 3 * (end + 1 - f.it) + 3
        ELSE IF f.pc = "exhausted" THEN 1
        ELSE 0

\* C4 as stated: for every (n, x_i, y_j) the generator yields start, ..., end
\* in increasing order, end - start + 1 pairs in all, and then terminates.
C4_EveryInput ==
    \A i \in Inst :
        call[i].pc \notin {"idle", "created"} => CountsUp(call[i])

\* C4: for every (n, x_i, y_j) with 0 <= x_i <= n and 0 <= y_j <= n the
\* generator yields start, start + 1, ..., end in increasing order, each
\* once, end - start + 1 pairs in all, and it terminates: every step of the
\* generator or of its consumer lowers the number of the steps left, which
\* is never negative.
C4_InDomain ==
    /\ [](\A i \in Inst :
            (call[i].pc # "idle" /\ InDomain(call[i])) =>
                (CountsUp(call[i]) /\ StepsLeft(call[i]) >= 0))
    /\ [][\A i \in Inst :
            (call[i].pc \notin {"idle", "done"} /\ InDomain(call[i])
               /\ call[i]' # call[i]) =>
                StepsLeft(call[i]') < StepsLeft(call[i])]_vars

C4_Witness ==
    \E i \in Inst :
        /\ call[i].op = "pmf"
        /\ call[i].pc = "done"
        /\ InDomain(call[i])
        /\ Len(call[i].out) >= 3

C6_Boundary ==
    \A i \in Inst :
        LET f == call[i]
        IN  (f.x_i = f.n /\ 0 <= f.y_j /\ f.y_j <= f.n
               /\ f.pc \notin {"idle", "created"}) =>
              /\ f.pc # "raised"
              /\ f.start = f.y_j /\ f.end = f.y_j
              /\ f.out = <<>> => f.numerator = f.denominator
              /\ IsPrefix(f.out, <<<<f.y_j, RatOne>>>>)
              /\ f.pc \in {"exhausted", "done"} =>
                     f.out = <<<<f.y_j, RatOne>>>>

C6_Witness ==
    \E i \in Inst :
        /\ call[i].pc = "done"
        /\ call[i].x_i = call[i].n
        /\ 0 < call[i].y_j /\ call[i].y_j < call[i].n
        /\ Len(call[i].out) = 1

\* C7: whatever the interleaving of two calls, each call yields the pairs,
\* raises, and returns the value that the same call gives when it runs
\* alone; two calls with the same inputs give the same output.
C7_Independent ==
    /\ \A i \in Inst :
          LET f == call[i]
              alone == _hypergeometric_pmf(f.n, f.x_i, f.y_j)
          IN  /\ f.pc = "created" => f.out = <<>>
              /\ f.pc = "raised" =>
                    (PmfRaises(f.n, f.x_i, f.y_j) /\ f.out = <<>>)
              /\ f.pc \in {"loop", "prob", "yielded", "exhausted", "done"} =>
                    ~PmfRaises(f.n, f.x_i, f.y_j)
              /\ f.pc = "yielded" => IsPrefix(f.out, alone)
              /\ f.pc \in {"exhausted", "done"} => f.out = alone
              /\ (f.pc = "done" /\ f.op = "emi") =>
                    f.ret = calculate_partial_expected_mutual_information(
                                f.n, f.x_i, f.y_j)
    /\ \A i, j \in Inst :
          (/\ call[i].pc = "done" /\ call[j].pc = "done"
           /\ call[i].op = call[j].op /\ call[i].n = call[j].n
           /\ call[i].x_i = call[j].x_i /\ call[i].y_j = call[j].y_j) =>
              call[i] = call[j]

C7_Witness ==
    /\ call[1].pc = "yielded" /\ Len(call[1].out) = 2
    /\ call[2].pc = "prob" /\ call[2].n # call[1].n
    /\ Len(call[2].logargs) = 0

\* C8 as stated: for inputs with start > end the generator completes
\* normally and yields nothing; no log-factorial raises.
C8_EmptyWithoutError ==
    \A i \in Inst :
        LET f == call[i]
        IN  (f.pc # "idle" /\ SupportStart(f.n, f.x_i, f.y_j) >
                                  SupportEnd(f.n, f.x_i, f.y_j)) =>
                (f.pc # "raised" /\ f.out = <<>>)

\* C8: for integer inputs with start > end the generator yields no pair:
\* its first step raises ValueError in a log-factorial before the loop, and
\* no denominator update is evaluated.
C8_Raises ==
    \A i \in Inst :
        LET f == call[i]
        IN  (f.pc \notin {"idle", "created"}
               /\ SupportStart(f.n, f.x_i, f.y_j) >
                      SupportEnd(f.n, f.x_i, f.y_j)) =>
                (f.pc = "raised" /\ f.out = <<>> /\ f.logargs = <<>>)

C8_Witness ==
    \E i \in Inst :
        /\ call[i].pc = "raised"
        /\ call[i].op = "pmf"
        /\ call[i].x_i <= call[i].n
        /\ SupportStart(call[i].n, call[i].x_i, call[i].y_j) >
               SupportEnd(call[i].n, call[i].x_i, call[i].y_j)

\* The sum of p_j over the first m pairs of out.
RECURSIVE SumProbability(_, _)
SumProbability(out, m) ==
    IF m = 0 THEN RatZero
    ELSE RatAdd(SumProbability(out, m - 1), out[m][2])

\* The sum of n_ij * (coefficient + log2(n_ij)) * p_j over those of the
\* first m pairs of out that have n_ij # 0.
RECURSIVE SumTerms(_, _, _)
SumTerms(out, m, coefficient) ==
    IF m = 0 THEN Zero
    ELSE IF out[m][1] = 0 THEN SumTerms(out, m - 1, coefficient)
    ELSE XAdd(SumTerms(out, m - 1, coefficient),
              XScale(RatMul(<<out[m][1], 1>>, out[m][2]),
                     XAdd(coefficient, PrimeLog(out[m][1]))))

\* The n_ij # 0 among the first m pairs of out.
RECURSIVE NonZero(_, _)
NonZero(out, m) ==
    IF m = 0 THEN <<>>
    ELSE IF out[m][1] = 0 THEN NonZero(out, m - 1)
    ELSE Append(NonZero(out, m - 1), out[m][1])

\* C9: in the EMI loop sum_probability is the sum of the p_j of all the
\* pairs taken, partial_result is the sum of n_ij * (coefficient +
\* log2(n_ij)) * p_j over the pairs taken with n_ij # 0, log2 has been
\* evaluated for those n_ij only, and the value returned is
\* partial_result / sum_probability.
C9_Accumulators ==
    \A i \in Inst :
        LET f == call[i]
            m == Consumed(f)
        IN  (f.op = "emi" /\ f.pc # "idle") =>
              /\ f.sum_probability = SumProbability(f.out, m)
              /\ f.partial_result = SumTerms(f.out, m, f.coefficient)
              /\ f.log2args = NonZero(f.out, m)
              /\ f.pc = "done" =>
                    f.ret = XDiv(SumTerms(f.out, Len(f.out), f.coefficient),
                                 SumProbability(f.out, Len(f.out)))

C9_Witness ==
    \E i \in Inst :
        /\ call[i].op = "emi"
        /\ call[i].pc = "done"
        /\ Len(call[i].out) >= 3
        /\ call[i].out[1][1] = 0
        /\ call[i].ret # Zero

\* C10: for 0 < x_i <= n and 0 < y_j <= n the four arguments given to
\* np.log by every denominator update are strictly positive.
C10_PositiveLogArguments ==
    \A i \in Inst :
        Positive(call[i]) =>
            \A m \in 1..Len(call[i].logargs) :
                \A k \in 1..4 : call[i].logargs[m][k] > 0

=============================================================================
